---- MODULE Spec2Model ----
(***************************************************************************)
(* sif-itree: an immutable interval tree stored as a flat, start-sorted    *)
(* array of nodes ((interval, value), max).  The tree shape is implicit:   *)
(* a slice is split at len / 2 into (left, mid, right).                    *)
(*                                                                         *)
(* Construction (new, par_new, new_unchecked) and the overlap queries      *)
(* (query, par_query) are modelled from src/src/sort.rs, src/src/query.rs  *)
(* and src/src/lib.rs.  Array positions are 1-based here; a slice of the   *)
(* node array is the record [lo, len] (first position, length).            *)
(***************************************************************************)
EXTENDS Integers, Sequences, FiniteSets, TLC

VARIABLES
    items,      \* the caller's input items, a sequence of [start, end, value]
    storage,    \* caller-supplied node storage handed to new_unchecked
    interval,   \* the query interval [start, end]
    mode,       \* what the caller's handler does: "Continue" or "Break"
    pc,         \* position of the calling program
    nodes,      \* ITree.nodes as built by new / new_unchecked
    calls,      \* handler invocations of query, in order: [pos, flow]
    peak,       \* the most frames of fn query that were active at one time
    result,     \* what ITree::query returned; <<>> before it returns
    panicked,   \* TRUE once unreachable!() / unwrap() on a missing mid is hit
    pnodes,     \* ITree.nodes as built by par_new
    forks,      \* what the two update_max closures joined by par_update_max
                \* returned: <<>> while running, <<max>> once returned
    tasks,      \* frames of fn par_query, keyed by their fork path
    pcalls,     \* handler invocations of par_query, in order: [pos, flow]
    presult     \* what ITree::par_query returned; <<>> before it returns

vars == <<items, storage, interval, mode, pc, nodes, calls, peak, result,
          panicked, pnodes, forks, tasks, pcalls, presult>>

inputVars == <<items, storage, interval, mode>>
seqVars == <<nodes, calls, peak, result, panicked>>
parVars == <<pnodes, forks, tasks, pcalls, presult>>

----------------------------------------------------------------------------
(* Bounds of the model.                                                    *)

\* Spec, SpecBreak: at most MaxLen items over the keys 0..MaxKey
MaxLen == 3
MaxKey == 1
\* SpecBuild: at most BuildLen items over the keys 0..BuildKey
BuildLen == 3
BuildKey == 2
\* SpecDegenerate: at most DegLen items over the three keys 0..2, which let a
\* point lie strictly inside an interval; three items put one in each of the
\* left, mid and right places of the split
DegLen == 3
\* SpecUnchecked: at most RawLen nodes of arbitrary storage over RawKeys
RawLen == 3
RawKeys == {0, 1}
\* SpecDepth: at most DepthLen nodes of storage, all starting at key 0
DepthLen == 7

----------------------------------------------------------------------------
(* Data.                                                                   *)

Max(a, b) == IF a >= b THEN a ELSE b

\* F(x), with x evaluated once however often F uses it
With(x, F(_)) == CHOOSE r \in {F(v) : v \in {x}} : TRUE

\* Item<K, V> = (Range<K>, V)
Item(s, e, v) == [start |-> s, end |-> e, value |-> v]

\* Node<K, V> = (Item<K, V>, K)
Node(s, e, v, m) == [start |-> s, end |-> e, value |-> v, max |-> m]

\* node.0, the item of a node, as ITree::iter yields it
ItemOf(n) == Item(n.start, n.end, n.value)

\* ControlFlow<R>: Continue(()) and Break(r)
Continue == <<"Continue">>
Break(r) == <<"Break", r>>
IsBreak(flow) == flow[1] = "Break"

\* the unwinding of a panic, as a flow of its own
Panic == <<"Panic">>

\* An input of at most n items over the keys 0..k; the value of an item is
\* its position in the input, so equal intervals remain distinguishable items.
IsInput(its, n, k) ==
    \E m \in 0..n : \E f \in [1..m -> (0..k) \X (0..k)] :
        its = [i \in 1..m |-> Item(f[i][1], f[i][2], i)]

\* Arbitrary node storage of at most n nodes: neither the order of the starts
\* nor the max fields are constrained.
IsStorage(sto, n, starts, ends, maxes) ==
    \E m \in 0..n : \E f \in [1..m -> starts \X ends \X maxes] :
        sto = [i \in 1..m |-> Node(f[i][1], f[i][2], i, f[i][3])]

----------------------------------------------------------------------------
(* Positional split: nodes.split_at(nodes.len() / 2), then [mid, right @ ..] *)
(* A slice is [lo, len]: its first position (1-based) and its length.      *)

SplitAtSkewed(len) == IF len >= 3 THEN len - 2 ELSE len \div 2

SplitAt(len) == len \div 2

Mid(s) == s.lo + SplitAt(s.len)

Left(s) == [lo |-> s.lo, len |-> SplitAt(s.len)]

Right(s) == [lo |-> Mid(s) + 1, len |-> s.len - SplitAt(s.len) - 1]

Whole(arr) == [lo |-> 1, len |-> Len(arr)]

----------------------------------------------------------------------------
(* Construction.                                                           *)

\* .map(|(interval, value)| ((interval, value), interval.end.clone()))
MakeNodes(its) ==
    [i \in 1..Len(its) |-> Node(its[i].start, its[i].end, its[i].value, its[i].end)]

SortedByStart(arr) == \A i \in 1..(Len(arr) - 1) : arr[i].start <= arr[i + 1].start

\* arr without its i-th element
Without(arr, i) == SubSeq(arr, 1, i - 1) \o SubSeq(arr, i + 1, Len(arr))

\* sort_unstable_by / par_sort_unstable_by on the start: every permutation in
\* non-decreasing start order; the order among equal starts is not specified.
\* Any element of least start may come first, then any such order of the rest.
RECURSIVE SortOutcomes(_)
SortOutcomes(arr) ==
    IF arr = <<>> THEN {<<>>}
    ELSE UNION {{<<arr[i]>> \o rest : rest \in SortOutcomes(Without(arr, i))} :
                   i \in {j \in DOMAIN arr : \A k \in DOMAIN arr : arr[j].start <= arr[k].start}}

\* mid.1 = mid.1.clone().max(k), k being what update_max returned for the
\* sub-slice `from` of s: the max field it left in the mid of `from`
RaiseMax(arr, s, from) == [arr EXCEPT ![Mid(s)].max = Max(@, arr[Mid(from)].max)]

RECURSIVE update_max_left_only(_, _)
update_max_left_only(arr, s) ==
    IF Left(s).len # 0
    THEN With(update_max_left_only(arr, Left(s)), LAMBDA l : RaiseMax(l, s, Left(s)))
    ELSE arr

\* update_max(nodes) on the non-empty slice s of arr: the array afterwards.
\* The value it returns is the max field it leaves in the slice's mid.
RECURSIVE update_max(_, _)
update_max(arr, s) ==
    LET AfterLeft(a) ==
            IF Right(s).len # 0
            THEN With(update_max(a, Right(s)), LAMBDA r : RaiseMax(r, s, Right(s)))
            ELSE a
    IN  IF Left(s).len # 0
        THEN With(With(update_max(arr, Left(s)), LAMBDA l : RaiseMax(l, s, Left(s))),
                  AfterLeft)
        ELSE AfterLeft(arr)

\* the arrays ITree::new can leave in ITree.nodes for the input its
NewOutcomes(its) ==
    {IF Len(sorted) # 0 THEN update_max(sorted, Whole(sorted)) ELSE sorted :
        sorted \in SortOutcomes(MakeNodes(its))}

\* ITree::new / FromIterator::from_iter
New ==
    /\ pc = "start"
    /\ nodes' \in NewOutcomes(items)
    /\ pc' = "built"
    /\ UNCHANGED <<inputVars, calls, peak, result, panicked, parVars>>

\* ITree::new_unchecked
NewUnchecked ==
    /\ pc = "raw"
    /\ nodes' = storage
    /\ pc' = "built"
    /\ UNCHANGED <<inputVars, calls, peak, result, panicked, parVars>>

----------------------------------------------------------------------------
(* Sequential query.                                                       *)

\* The caller's handler H(&Item) -> ControlFlow<R>: one that always
\* continues, or one that always breaks with the value of the item it got.
Handler(m, item) == IF m = "Break" THEN Break(item.value) ELSE Continue

StopsNever(flow) == FALSE

\* the `?` operator: a Break is returned at once, a Continue goes on
Stops(flow) == IsBreak(flow)

EndsAfterStartOrAt(q, n) == q.end >= n.start

StartsBeforeEndOrAt(q, n) == q.start <= n.end

\* args.interval.start < mid.1
BelowMax(q, n) == q.start < n.max

\* args.interval.end > (mid.0).0.start
EndsAfterStart(q, n) == q.end > n.start

\* args.interval.start < (mid.0).0.end
StartsBeforeEnd(q, n) == q.start < n.end

\* go_left after the loop body
GoLeft(arr, s, q) == BelowMax(q, arr[Mid(s)]) /\ Left(s).len # 0

\* go_right after the loop body
GoRight(arr, s, q) ==
    BelowMax(q, arr[Mid(s)]) /\ EndsAfterStart(q, arr[Mid(s)]) /\ Right(s).len # 0

ReportsWithoutEndTest(arr, s, q) ==
    BelowMax(q, arr[Mid(s)]) /\ EndsAfterStart(q, arr[Mid(s)])

\* whether the loop body passes mid.0 to the handler
Reports(arr, s, q) ==
    /\ BelowMax(q, arr[Mid(s)])
    /\ EndsAfterStart(q, arr[Mid(s)])
    /\ StartsBeforeEnd(q, arr[Mid(s)])

\* The run of fn query so far: the handler invocations [pos, flow] in order,
\* the flow it returns, and the most frames that were active at one time.
NoRun == [calls |-> <<>>, flow |-> Continue, peak |-> 0]

\* fn query(args, nodes) entered, or its loop continued, on the slice s with
\* `depth` frames of fn query active (this one included).  `nodes = left` and
\* `nodes = right` continue the loop in the same frame; only the
\* (true, true) arm calls query again.
RECURSIVE query(_, _, _, _, _, _)
query(arr, q, m, s, depth, run) ==
    IF s.len = 0
    THEN [run EXCEPT !.peak = Max(@, depth), !.flow = Panic]
    ELSE
    LET hit  == Reports(arr, s, q)
        flow == IF hit THEN Handler(m, ItemOf(arr[Mid(s)])) ELSE Continue
        told == [run EXCEPT !.peak = Max(@, depth),
                            !.calls = IF hit
                                      THEN Append(@, [pos |-> Mid(s), flow |-> flow])
                                      ELSE @]
        gl   == GoLeft(arr, s, q)
        gr   == GoRight(arr, s, q)
        \* after `query(args, left)` returned sub: `?`, then `nodes = right`
        AfterLeft(sub) ==
            IF Stops(sub.flow) \/ sub.flow = Panic THEN sub
            ELSE query(arr, q, m, Right(s), depth, sub)
    IN  IF Stops(flow) THEN [told EXCEPT !.flow = flow]
        ELSE IF gl /\ gr
        THEN With(query(arr, q, m, Left(s), depth + 1, told), AfterLeft)
        ELSE IF gl THEN query(arr, q, m, Left(s), depth, told)
        ELSE IF gr THEN query(arr, q, m, Right(s), depth, told)
        ELSE [told EXCEPT !.flow = Continue]

QueryRunUnguarded(arr, q, m) == query(arr, q, m, Whole(arr), 1, NoRun)

\* the body of ITree::query: `if !nodes.is_empty() { query(..)?; }`
QueryRun(arr, q, m) ==
    IF Len(arr) # 0 THEN query(arr, q, m, Whole(arr), 1, NoRun) ELSE NoRun

\* ITree::query
Query ==
    /\ pc = "built"
    /\ LET run == QueryRun(nodes, interval, mode)
       IN  /\ calls' = run.calls
           /\ peak' = run.peak
           /\ panicked' = (run.flow = Panic)
           /\ result' = IF run.flow = Panic THEN <<>> ELSE run.flow
    /\ pc' = "queried"
    /\ UNCHANGED <<inputVars, nodes, parVars>>

----------------------------------------------------------------------------
(* Parallel construction.                                                  *)

\* par_new up to the rayon::join of par_update_max: the sort, then the match
\* on (left.is_empty(), right.is_empty()).  Only the (false, false) arm
\* forks; the other arms finish within the call.
ParNew ==
    /\ pc = "start"
    /\ \E sorted \in SortOutcomes(MakeNodes(items)) :
          LET s == Whole(sorted)
          IN  IF Len(sorted) = 0 \/ (Left(s).len = 0 /\ Right(s).len = 0)
              THEN /\ pnodes' = sorted
                   /\ pc' = "pbuilt"
              ELSE IF Right(s).len = 0
              THEN /\ pnodes' = RaiseMax(update_max(sorted, Left(s)), s, Left(s))
                   /\ pc' = "pbuilt"
              ELSE IF Left(s).len = 0
              THEN /\ pnodes' = RaiseMax(update_max(sorted, Right(s)), s, Right(s))
                   /\ pc' = "pbuilt"
              ELSE /\ pnodes' = sorted
                   /\ pc' = "pjoin"
    /\ UNCHANGED <<inputVars, seqVars, forks, tasks, pcalls, presult>>

\* the sub-slice a closure of the join works on
ForkSlice(side) ==
    IF side = "left" THEN Left(Whole(pnodes)) ELSE Right(Whole(pnodes))

\* One of the closures `|| update_max(left)`, `|| update_max(right)` given to
\* join: they run in either order, each on its own sub-slice.
ParUpdate ==
    /\ pc = "pjoin"
    /\ \E side \in {"left", "right"} :
          /\ forks[side] = <<>>
          /\ pnodes' = update_max(pnodes, ForkSlice(side))
          /\ forks' = [forks EXCEPT ![side] = <<pnodes'[Mid(ForkSlice(side))].max>>]
    /\ UNCHANGED <<inputVars, seqVars, pc, tasks, pcalls, presult>>

ParUpdateJoinLeftOnly ==
    /\ pc = "pjoin"
    /\ forks.left # <<>>
    /\ forks.right # <<>>
    /\ pnodes' = [pnodes EXCEPT ![Mid(Whole(pnodes))].max = Max(@, forks.left[1])]
    /\ pc' = "pbuilt"
    /\ UNCHANGED <<inputVars, seqVars, forks, tasks, pcalls, presult>>

\* join has returned both results: mid.1 = mid.1.clone().max(left.max(right))
ParUpdateJoin ==
    /\ pc = "pjoin"
    /\ forks.left # <<>>
    /\ forks.right # <<>>
    /\ pnodes' = [pnodes EXCEPT ![Mid(Whole(pnodes))].max =
                     Max(@, Max(forks.left[1], forks.right[1]))]
    /\ pc' = "pbuilt"
    /\ UNCHANGED <<inputVars, seqVars, forks, tasks, pcalls, presult>>

----------------------------------------------------------------------------
(* Parallel query.  A frame of fn par_query is keyed by its fork path: the *)
(* root is <<>>, the closures of a frame's join are path \o <<0>> (left)   *)
(* and path \o <<1>> (right).                                              *)

\* a frame: its slice, where it is ("loop", "join", "done"), what it returned
Frame(s, at, flow) == [slice |-> s, at |-> at, flow |-> flow]

\* ITree::par_query: the emptiness check and the call of fn par_query
ParQueryStart ==
    /\ pc = "pbuilt"
    /\ IF Len(pnodes) # 0
       THEN /\ tasks' = (<<>> :> Frame(Whole(pnodes), "loop", <<>>))
            /\ pc' = "pquery"
            /\ presult' = presult
       ELSE /\ tasks' = tasks
            /\ pc' = "done"
            /\ presult' = Continue
    /\ UNCHANGED <<inputVars, seqVars, pnodes, forks, pcalls>>

ParForkSlicesLeftTwice(s) == <<Left(s), Left(s)>>

\* the slices of join(|| par_query(args, left), || par_query(args, right))
ParForkSlices(s) == <<Left(s), Right(s)>>

\* One iteration of the loop of fn par_query in some running frame.
ParQueryStep ==
    /\ pc = "pquery"
    /\ \E t \in DOMAIN tasks :
          /\ tasks[t].at = "loop"
          /\ LET s == tasks[t].slice
             IN  IF s.len = 0
                 THEN /\ panicked' = TRUE
                      /\ pc' = "panicked"
                      /\ UNCHANGED <<tasks, pcalls>>
                 ELSE LET hit  == Reports(pnodes, s, interval)
                          flow == IF hit THEN Handler(mode, ItemOf(pnodes[Mid(s)]))
                                  ELSE Continue
                          gl   == GoLeft(pnodes, s, interval)
                          gr   == GoRight(pnodes, s, interval)
                      IN  /\ pcalls' = IF hit
                                       THEN Append(pcalls, [pos |-> Mid(s), flow |-> flow])
                                       ELSE pcalls
                          /\ UNCHANGED <<panicked, pc>>
                          /\ tasks' =
                               IF Stops(flow)
                               THEN [tasks EXCEPT ![t] = Frame(s, "done", flow)]
                               ELSE IF gl /\ gr
                               THEN (t \o <<0>> :> Frame(ParForkSlices(s)[1], "loop", <<>>))
                                    @@ (t \o <<1>> :> Frame(ParForkSlices(s)[2], "loop", <<>>))
                                    @@ [tasks EXCEPT ![t].at = "join"]
                               ELSE IF gl
                               THEN [tasks EXCEPT ![t].slice = Left(s)]
                               ELSE IF gr
                               THEN [tasks EXCEPT ![t].slice = Right(s)]
                               ELSE [tasks EXCEPT ![t] = Frame(s, "done", Continue)]
    /\ UNCHANGED <<inputVars, nodes, calls, peak, result, pnodes, forks, presult>>

JoinFlowLeftOnly(left, right) == IF Stops(left) THEN left ELSE Continue

\* `left?; right?; return ControlFlow::Continue(())` on the results of join
JoinFlow(left, right) ==
    IF Stops(left) THEN left
    ELSE IF Stops(right) THEN right
    ELSE Continue

\* A frame blocked in join resumes when both of its closures have returned.
ParQueryJoin ==
    /\ pc = "pquery"
    /\ \E t \in DOMAIN tasks :
          /\ tasks[t].at = "join"
          /\ tasks[t \o <<0>>].at = "done"
          /\ tasks[t \o <<1>>].at = "done"
          /\ tasks' = [u \in DOMAIN tasks \ {t \o <<0>>, t \o <<1>>} |->
                          IF u = t
                          THEN Frame(tasks[t].slice, "done",
                                     JoinFlow(tasks[t \o <<0>>].flow, tasks[t \o <<1>>].flow))
                          ELSE tasks[u]]
    /\ UNCHANGED <<inputVars, seqVars, pnodes, forks, pcalls, presult, pc>>

\* ITree::par_query returns: `par_query(..)?; ControlFlow::Continue(())`
ParQueryReturn ==
    /\ pc = "pquery"
    /\ <<>> \in DOMAIN tasks
    /\ tasks[<<>>].at = "done"
    /\ presult' = tasks[<<>>].flow
    /\ tasks' = <<>>
    /\ pc' = "done"
    /\ UNCHANGED <<inputVars, seqVars, pnodes, forks, pcalls>>

----------------------------------------------------------------------------
(* Specifications.                                                         *)

\* the caller before it builds a tree, about to query over `keys`
Start(keys, modes) ==
    /\ interval \in [start : keys, end : keys]
    /\ mode \in modes
    /\ nodes = <<>>
    /\ calls = <<>>
    /\ peak = 0
    /\ result = <<>>
    /\ panicked = FALSE
    /\ pnodes = <<>>
    /\ forks = [left |-> <<>>, right |-> <<>>]
    /\ tasks = <<>>
    /\ pcalls = <<>>
    /\ presult = <<>>

\* a caller of new / par_new
InitItems(n, k, modes) ==
    /\ IsInput(items, n, k)
    /\ storage = <<>>
    /\ pc = "start"
    /\ Start(0..k, modes)

\* a caller of new_unchecked
InitStorage(n, starts, ends, maxes, keys, modes) ==
    /\ items = <<>>
    /\ IsStorage(storage, n, starts, ends, maxes)
    /\ pc = "raw"
    /\ Start(keys, modes)

\* either new and query, or par_new and par_query, on some input and interval
Next ==
    \/ New
    \/ Query
    \/ ParNew
    \/ ParUpdate
    \/ ParUpdateJoin
    \/ ParQueryStart
    \/ ParQueryStep
    \/ ParQueryJoin
    \/ ParQueryReturn

\* with a handler that always continues
Init == InitItems(MaxLen, MaxKey, {"Continue"})

Spec == Init /\ [][Next]_vars

\* with a handler that always breaks
InitBreak == InitItems(MaxLen, MaxKey, {"Break"})

SpecBreak == InitBreak /\ [][Next]_vars

\* new and par_new alone
InitBuild == InitItems(BuildLen, BuildKey, {"Continue"}) /\ interval.start = 0 /\ interval.end = 0

NextBuild == New \/ ParNew \/ ParUpdate \/ ParUpdateJoin

SpecBuild == InitBuild /\ [][NextBuild]_vars

\* new and query over three distinct keys, with either handler
InitDegenerate == InitItems(DegLen, 2, {"Continue", "Break"})

NextSeq == New \/ Query

SpecDegenerate == InitDegenerate /\ [][NextSeq]_vars

\* new_unchecked on arbitrary storage, then query
InitUnchecked ==
    InitStorage(RawLen, RawKeys, RawKeys, RawKeys, RawKeys, {"Continue", "Break"})

NextUnchecked == NewUnchecked \/ Query

SpecUnchecked == InitUnchecked /\ [][NextUnchecked]_vars

\* new_unchecked on longer storage whose nodes all start at 0, then query
InitDepth == InitStorage(DepthLen, {0}, {0, 1}, {0, 1}, {0, 1}, {"Continue"})

SpecDepth == InitDepth /\ [][NextUnchecked]_vars

----------------------------------------------------------------------------
(* What the properties below are stated with.                              *)

Range(s) == {s[i] : i \in DOMAIN s}

\* number of occurrences of x in the sequence s
Count(s, x) == Cardinality({i \in DOMAIN s : s[i] = x})

SameMultiset(a, b) ==
    \A sa \in {a} : \A sb \in {b} :
        /\ Len(sa) = Len(sb)
        /\ \A x \in Range(sa) \cup Range(sb) : Count(sa, x) = Count(sb, x)

\* the brute-force filter of the tests:
\* query_end > range.start && query_start < range.end
Oracle(q, it) == q.end > it.start /\ q.start < it.end

\* the items a linear scan of its finds overlapping q, in order
Expected(its, q) == SelectSeq(its, LAMBDA it : Oracle(q, it))

\* the items the handler was invoked on, in order
Reported(arr, cs) == [i \in 1..Len(cs) |-> ItemOf(arr[cs[i].pos])]

ItemsOf(arr) == [i \in 1..Len(arr) |-> ItemOf(arr[i])]

Positions(cs) == {cs[i].pos : i \in DOMAIN cs}

\* every slice the positional split reaches from s
RECURSIVE Slices(_)
Slices(s) ==
    IF s.len = 0 THEN {} ELSE {s} \cup Slices(Left(s)) \cup Slices(Right(s))

\* the maximum end over the nodes of the non-empty slice s, by linear scan
MaxEnd(arr, s) ==
    LET ends == {arr[i].end : i \in s.lo..(s.lo + s.len - 1)}
    IN  CHOOSE m \in ends : \A e \in ends : e <= m

Augmented(arr) == \A s \in Slices(Whole(arr)) : arr[Mid(s)].max = MaxEnd(arr, s)

\* the positions of s in mid, left, right order
RECURSIVE PreOrder(_)
PreOrder(s) ==
    IF s.len = 0 THEN <<>>
    ELSE <<Mid(s)>> \o PreOrder(Left(s)) \o PreOrder(Right(s))

\* the positions of the overlapping nodes of arr in mid, left, right order
OverlappingInPreOrder(arr, q) ==
    SelectSeq(PreOrder(Whole(arr)), LAMBDA p : Oracle(q, ItemOf(arr[p])))

RECURSIVE Pow2(_)
Pow2(k) == IF k = 0 THEN 1 ELSE 2 * Pow2(k - 1)

\* ceil(log2(x)) for x >= 1
CeilLog2(x) == CHOOSE k \in 0..x : Pow2(k) >= x /\ (k = 0 \/ Pow2(k - 1) < x)

----------------------------------------------------------------------------
(* Properties.                                                             *)

\* C1: with a handler that always continues, query on the index built by new
\* invokes the handler on exactly the multiset of input items that satisfy
\* qs < e && s < qe, and returns Continue.
C1_QueryMatchesOracle ==
    (pc = "queried" /\ mode = "Continue") =>
        /\ SameMultiset(Reported(nodes, calls), Expected(items, interval))
        /\ result = Continue

\* a query that reports two of three items, one of the items having start >= end
C1_Witness ==
    /\ pc = "queried"
    /\ mode = "Continue"
    /\ Len(items) = 3
    /\ Len(calls) = 2
    /\ \E i \in DOMAIN items : items[i].start >= items[i].end

\* C2: the nodes new leaves are ordered by non-decreasing start, and in every
\* slice the positional split reaches, mid.max is the maximum end of the slice.
C2_BuildInvariants ==
    pc = "built" => SortedByStart(nodes) /\ Augmented(nodes)

\* new reordered an unsorted input of three items and raised the max of the root
C2_Witness ==
    /\ pc = "built"
    /\ Len(nodes) = 3
    /\ ~SortedByStart(MakeNodes(items))
    /\ nodes[2].max > nodes[2].end
    /\ nodes[3].end > nodes[1].end

\* C3: with a handler that always continues, par_new followed by par_query
\* invokes the handler, in every interleaving, on the same multiset of items
\* as new followed by query (each overlapping item once), and returns Continue.
C3_ParMatchesSeq ==
    (pc = "done" /\ mode = "Continue") =>
        /\ presult = Continue
        /\ SameMultiset(Reported(pnodes, pcalls), Expected(items, interval))
        /\ \A n \in NewOutcomes(items) : \A run \in {QueryRun(n, interval, mode)} :
              /\ run.flow = Continue
              /\ SameMultiset(Reported(pnodes, pcalls), Reported(n, run.calls))

\* a par_query that forked at the root and reported all three items
C3_Witness ==
    /\ pc = "done"
    /\ mode = "Continue"
    /\ Len(pcalls) = 3
    /\ presult = Continue

\* C4 as stated: a stored item with start == end is never passed to the
\* handler, and a query with qs == qe never invokes the handler.
C4_DegenerateNeverReported ==
    pc = "queried" =>
        /\ \A i \in DOMAIN calls : nodes[calls[i].pos].start # nodes[calls[i].pos].end
        /\ interval.start = interval.end => calls = <<>>

\* C4, amended: a stored item with start == end == p is passed to the handler
\* only when qs < p < qe, and a query with qs == qe == p invokes the handler
\* only on stored items with s < p < e; on an index built by new, with a
\* handler that always continues, exactly those items are passed.
C4_DegenerateStrictlyInside ==
    pc = "queried" =>
        \A p \in DOMAIN nodes :
            LET n == nodes[p]
                reported == p \in Positions(calls)
                inside == interval.start < n.start /\ n.start < interval.end
                around == n.start < interval.start /\ interval.start < n.end
            IN  /\ n.start = n.end =>
                      /\ reported => inside
                      /\ (mode = "Continue" /\ inside) => reported
                /\ interval.start = interval.end =>
                      /\ reported => around
                      /\ (mode = "Continue" /\ around) => reported

\* a degenerate item in the right place of the split was passed to a
\* continuing handler, after another degenerate item was passed over
C4_Witness ==
    /\ pc = "queried"
    /\ mode = "Continue"
    /\ Len(nodes) = 3
    /\ nodes[3].start = nodes[3].end
    /\ 3 \in Positions(calls)
    /\ nodes[1].start = nodes[1].end
    /\ 1 \notin Positions(calls)

\* C5: when some item overlaps, a query whose handler breaks invokes it once,
\* on the first overlapping node in mid, left, right order, and returns that
\* Break with the handler's value.
C5_BreakOnFirst ==
    (pc = "queried" /\ mode = "Break" /\ Expected(items, interval) # <<>>) =>
        LET first == OverlappingInPreOrder(nodes, interval)[1]
        IN  /\ Len(calls) = 1
            /\ calls[1].pos = first
            /\ calls[1].flow = Break(nodes[first].value)
            /\ result = calls[1].flow

\* the handler broke on a node below the root while two nodes overlap
C5_Witness ==
    /\ pc = "queried"
    /\ mode = "Break"
    /\ Len(calls) = 1
    /\ IsBreak(result)
    /\ Len(Expected(items, interval)) >= 2
    /\ calls[1].pos # Mid(Whole(nodes))

\* C6: with a handler that always breaks, par_query invokes the handler at
\* least on the node query reports on the same index, and returns a Break of
\* the handler whenever the handler was invoked.
C6_ParBreakSuperset ==
    (pc = "done" /\ mode = "Break") =>
        /\ Positions(QueryRun(pnodes, interval, mode).calls) \subseteq Positions(pcalls)
        /\ pcalls # <<>> =>
              /\ IsBreak(presult)
              /\ \E j \in DOMAIN pcalls : pcalls[j].flow = presult

\* the handler was invoked again after it had returned a Break to a sibling
C6_Witness ==
    /\ pc = "done"
    /\ mode = "Break"
    /\ Len(pcalls) = 2
    /\ IsBreak(pcalls[1].flow)
    /\ IsBreak(presult)

\* C7 as stated: the nodes par_new leaves are the nodes new leaves.
C7_ParNewIdentical ==
    pc = "pbuilt" => \A n \in NewOutcomes(items) : pnodes = n

\* C7, amended: par_new leaves the items of new in start order with the same
\* start at every position and the max fields of the same augmentation, and
\* the very nodes of new whenever both sorts leave the items in the same order.
C7_ParNewSameUpToTies ==
    pc = "pbuilt" =>
        /\ Augmented(pnodes)
        /\ \A n \in NewOutcomes(items) :
              /\ Len(pnodes) = Len(n)
              /\ \A i \in DOMAIN n : pnodes[i].start = n[i].start
              /\ SameMultiset(ItemsOf(pnodes), ItemsOf(n))
              /\ ItemsOf(pnodes) = ItemsOf(n) => pnodes = n

\* par_new joined its two closures, the right one returning the larger max
C7_Witness ==
    /\ pc = "pbuilt"
    /\ Len(pnodes) = 3
    /\ forks.right # <<>>
    /\ forks.left # <<>>
    /\ forks.right[1] > forks.left[1]
    /\ pnodes[2].max > pnodes[2].end

\* C8: on any storage wrapped by new_unchecked the query returns without
\* reaching unreachable!() / unwrap() on a slice that has no mid.
C8_NeverPanics ==
    pc = "queried" => ~panicked /\ result # <<>>

\* a query that recursed on storage that is neither sorted nor augmented
C8_Witness ==
    /\ pc = "queried"
    /\ ~panicked
    /\ Len(nodes) = 3
    /\ ~SortedByStart(nodes)
    /\ ~Augmented(nodes)
    /\ peak = 2

\* C9: the frames of fn query active at one time never exceed
\* ceil(log2(n + 1)) on an index of n records.
C9_DepthLogarithmic ==
    pc = "queried" => peak <= CeilLog2(Len(nodes) + 1)

\* a query that overlaps all seven records and reaches three frames
C9_Witness ==
    /\ pc = "queried"
    /\ Len(nodes) = 7
    /\ Len(calls) = 7
    /\ peak = 3

\* C10: on any storage wrapped by new_unchecked, every item passed to the
\* handler satisfies qs < e && s < qe, and no position is passed twice.
C10_ReportsOnlyOverlaps ==
    pc = "queried" =>
        /\ \A i \in DOMAIN calls : Oracle(interval, ItemOf(nodes[calls[i].pos]))
        /\ \A i, j \in DOMAIN calls : calls[i].pos = calls[j].pos => i = j

\* unsorted storage on which the query reports one item and misses another
C10_Witness ==
    /\ pc = "queried"
    /\ mode = "Continue"
    /\ ~SortedByStart(nodes)
    /\ calls # <<>>
    /\ \E p \in DOMAIN nodes :
          Oracle(interval, ItemOf(nodes[p])) /\ p \notin Positions(calls)

====
